---- MODULE Spec2Model ----
(***************************************************************************)
(* A model of the model registry (Code/user_info/option_textmodel.py) and  *)
(* of the language enum (Code/user_info/option_language.py).               *)
(*                                                                         *)
(* Python values are dynamically typed, so every value that reaches a      *)
(* type check is a tagged record: t is the Python type, n the numeric      *)
(* value (bool is a subclass of int: True is 1, False is 0) and s the      *)
(* text of a str.                                                          *)
(***************************************************************************)
EXTENDS Integers, Sequences, FiniteSets, TLC

VARIABLES
    doc,          \* the parsed YAML document handed to ModelRegistry.load
    pc,           \* position of load: "start", "parse", "index", "ready", "failed"
    i,            \* loop index of the running loop (1-based position)
    heap,         \* list objects by reference; heap[CfgRef] is cfg.models
    by_id,        \* self._by_id
    by_code,      \* self._by_code
    err,          \* the exception raised by load, NoErr when none
    last,         \* the outcome of the latest call on the registry
    lang_pc,      \* position of OptionLanguage.from_code: "idle", "scan", "done"
    lang_code,    \* the argument of from_code
    lang_i,       \* position of the scan over the members
    lang_ret      \* the member from_code returned (its position), 0 when none

vars == <<doc, pc, i, heap, by_id, by_code, err, last,
          lang_pc, lang_code, lang_i, lang_ret>>
regVars == <<doc, pc, i, heap, by_id, by_code, err, last>>
langVars == <<lang_pc, lang_code, lang_i, lang_ret>>

(***************************************************************************)
(* Bounds                                                                  *)
(***************************************************************************)
MaxModels == 2

(***************************************************************************)
(* Python values                                                           *)
(***************************************************************************)
None_ == [t |-> "none", n |-> 0, s |-> ""]
Int_(k) == [t |-> "int", n |-> k, s |-> ""]
Bool_(b) == [t |-> "bool", n |-> (IF b THEN 1 ELSE 0), s |-> ""]
Str_(x) == [t |-> "str", n |-> 0, s |-> x]

\* isinstance(v, int): bool is a subclass of int
IsInstanceInt(v) == v.t \in {"int", "bool"}
IsInstanceBool(v) == v.t = "bool"
IsInstanceStr(v) == v.t = "str"
IsNone(v) == v.t = "none"

\* Python truthiness
Truthy(v) ==
    CASE v.t = "none" -> FALSE
      [] v.t \in {"int", "bool"} -> v.n # 0
      [] v.t = "str" -> v.s # ""
      [] OTHER -> TRUE

\* Python ==, which is also the equality of dict keys
PyEq(a, b) ==
    CASE IsInstanceInt(a) /\ IsInstanceInt(b) -> a.n = b.n
      [] a.t = "str" /\ b.t = "str" -> a.s = b.s
      [] OTHER -> a.t = b.t

Digits == <<"0", "1", "2", "3", "4", "5", "6", "7", "8", "9">>

RECURSIVE IntToStr(_)
IntToStr(k) ==
    IF k < 10 THEN Digits[k + 1]
    ELSE IntToStr(k \div 10) \o Digits[(k % 10) + 1]

\* str(v), also what an f-string prints for v
PyStr(v) ==
    CASE v.t = "str" -> v.s
      [] v.t = "int" -> IntToStr(v.n)
      [] v.t = "bool" -> (IF v.n = 1 THEN "True" ELSE "False")
      [] v.t = "none" -> "None"
      [] OTHER -> "[]"

(***************************************************************************)
(* Errors.  exc is the exception class, path the ctx-qualified path the    *)
(* message starts with ("" when the message carries none), what the rest   *)
(* of the message.                                                         *)
(***************************************************************************)
NoErr == [exc |-> "", path |-> "", what |-> ""]
Raise(exc, path, what) == [exc |-> exc, path |-> path, what |-> what]
Ok(v) == [ok |-> TRUE, val |-> v]
Fail(e) == [ok |-> FALSE, err |-> e]

(***************************************************************************)
(* FeatureConfig.from_dict.  A raw feature is [isDict, supported, model,   *)
(* url]; d.get gives None for an absent key, so absent and null coincide.  *)
(***************************************************************************)
FeatureFromDict(d, ctx) ==
    IF ~d.isDict THEN Fail(Raise("TypeError", ctx, "must be a dict"))
    ELSE IF ~IsInstanceBool(d.supported)
        THEN Fail(Raise("TypeError", ctx \o ".supported", "must be bool"))
    ELSE IF ~IsNone(d.model) /\ ~IsInstanceStr(d.model)
        THEN Fail(Raise("TypeError", ctx \o ".model", "must be str|null"))
    ELSE IF ~IsNone(d.url) /\ ~IsInstanceStr(d.url)
        THEN Fail(Raise("TypeError", ctx \o ".url", "must be str|null"))
    ELSE Ok([supported |-> (d.supported.n = 1), model |-> d.model, url |-> d.url])

(***************************************************************************)
(* ModelConfig.from_dict                                                   *)
(***************************************************************************)
ReqStrBad(v) == ~IsInstanceStr(v) \/ ~Truthy(v)
ReqIntBad(v) == ~IsInstanceInt(v)
ReqBoolBad(v) == ~IsInstanceBool(v)

required_feature_keys == {"mini_version", "deep_think", "json_output", "tool_calls"}

\* the loop over feats.items(): the first invalid feature raises, and
\* features[str(feat_name)] keeps the last value written under a name
RECURSIVE FeaturesFromItems(_, _, _)
FeaturesFromItems(items, ctx, acc) ==
    IF items = <<>> THEN Ok(acc)
    ELSE LET it == Head(items)
             r == FeatureFromDict(it.v, ctx \o ".features." \o PyStr(it.k))
             name == PyStr(it.k)
         IN IF ~r.ok THEN r
            ELSE FeaturesFromItems(Tail(items), ctx,
                    [k \in (DOMAIN acc) \cup {name} |->
                        IF k = name THEN r.val ELSE acc[k]])

MissingKeys(features) == required_feature_keys \ DOMAIN features

\* variant: only a null base_url breaks the requirement
UrlRequirementNullOnly(url_requirements, base_url) ==
    url_requirements /\ IsNone(base_url)

UrlRequirementBroken(url_requirements, base_url) ==
    url_requirements /\ ~Truthy(base_url)

ModelFromDict(d, ctx) ==
    IF ~d.isDict THEN Fail(Raise("TypeError", ctx, "must be a dict"))
    ELSE IF ReqIntBad(d.id) THEN Fail(Raise("TypeError", ctx \o ".id", "must be int"))
    ELSE IF ReqStrBad(d.name)
        THEN Fail(Raise("TypeError", ctx \o ".name", "must be non-empty str"))
    ELSE IF ReqStrBad(d.code)
        THEN Fail(Raise("TypeError", ctx \o ".code", "must be non-empty str"))
    ELSE IF ~PyEq(d.dependence, Str_("OpenAI"))
        THEN Fail(Raise("ValueError", ctx \o ".dependence", "must be one of ['OpenAI']"))
    ELSE IF ReqBoolBad(d.url_requirements)
        THEN Fail(Raise("TypeError", ctx \o ".url_requirements", "must be bool"))
    ELSE IF ~IsNone(d.base_url) /\ ~IsInstanceStr(d.base_url)
        THEN Fail(Raise("TypeError", ctx \o ".base_url", "must be str|null"))
    ELSE IF ReqStrBad(d.base_model)
        THEN Fail(Raise("TypeError", ctx \o ".base_model", "must be non-empty str"))
    ELSE IF ReqStrBad(d.charge_url)
        THEN Fail(Raise("TypeError", ctx \o ".charge_url", "must be non-empty str"))
    ELSE IF ReqStrBad(d.docs_url)
        THEN Fail(Raise("TypeError", ctx \o ".docs_url", "must be non-empty str"))
    ELSE IF ~d.features.isDict
        THEN Fail(Raise("TypeError", ctx \o ".features", "must be a dict"))
    ELSE LET fr == FeaturesFromItems(d.features.items, ctx, <<>>)
         IN IF ~fr.ok THEN fr
            ELSE IF MissingKeys(fr.val) # {}
                THEN Fail(Raise("ValueError", ctx \o ".features", "missing keys"))
            ELSE IF UrlRequirementBroken(d.url_requirements.n = 1, d.base_url)
                THEN Fail(Raise("ValueError", ctx,
                                "url_requirements=true but base_url is null/empty"))
            ELSE Ok([id |-> d.id, name |-> d.name.s, code |-> d.code.s,
                     dependence |-> d.dependence.s,
                     url_requirements |-> (d.url_requirements.n = 1),
                     base_url |-> d.base_url, base_model |-> d.base_model.s,
                     charge_url |-> d.charge_url.s, docs_url |-> d.docs_url.s,
                     features |-> fr.val])

(***************************************************************************)
(* The documents load is given.  A raw model entry is a record of the keys *)
(* from_dict reads; its features are [isDict, items], items being the      *)
(* key/value pairs of the mapping in document order.  A document is        *)
(* [exists, isDict, version, modelsIsList, models].                        *)
(***************************************************************************)
CodeOf == <<"chatgpt", "deepseek", "qwen", "kimi">>

RawFeat(supported, model, url) ==
    [isDict |-> TRUE, supported |-> supported, model |-> model, url |-> url]
NotADict == [isDict |-> FALSE, supported |-> None_, model |-> None_, url |-> None_]

BaseItems ==
    << [k |-> Str_("mini_version"), v |-> RawFeat(Bool_(TRUE), Str_("mini"), None_)],
       [k |-> Str_("deep_think"),
        v |-> RawFeat(Bool_(TRUE), Str_("reasoner"), Str_("https://feat"))],
       [k |-> Str_("json_output"), v |-> RawFeat(Bool_(FALSE), None_, None_)],
       [k |-> Str_("tool_calls"), v |-> RawFeat(Bool_(TRUE), None_, None_)] >>

\* the base features with one value put in place of deep_think's
WithDeepThink(f) == [BaseItems EXCEPT ![2].v = f]

\* the base features followed by more keys
ExtraOne(k) == <<[k |-> k, v |-> RawFeat(Bool_(TRUE), Str_("x1"), None_)]>>
ExtraOff(k) == <<[k |-> k, v |-> RawFeat(Bool_(FALSE), None_, None_)]>>

Without(items, name) == SelectSeq(items, LAMBDA it : it.k # Str_(name))

Items(x) == <<"features", [isDict |-> TRUE, items |-> x]>>

\* the model entry at position k of a document that loads
Base(k) ==
    [isDict |-> TRUE,
     id |-> Int_(k), name |-> Str_("Model"), code |-> Str_(CodeOf[k]),
     dependence |-> Str_("OpenAI"),
     url_requirements |-> Bool_(k % 2 = 1),
     base_url |-> (IF k % 2 = 1 THEN Str_("https://base") ELSE None_),
     base_model |-> Str_("base-model"),
     charge_url |-> Str_("https://charge"), docs_url |-> Str_("https://docs"),
     features |-> [isDict |-> TRUE, items |-> BaseItems]]

\* the entries tried at a position: Base with the keys of one patch replaced
Patches == <<
    <<>>,
    << <<"isDict", FALSE>> >>,
    << <<"id", Int_(1)>> >>,
    << <<"id", Bool_(TRUE)>> >>,
    << <<"id", Bool_(FALSE)>> >>,
    << <<"id", Str_("1")>> >>,
    << <<"id", None_>> >>,
    << <<"name", Str_("")>> >>,
    << <<"name", None_>> >>,
    << <<"code", Str_(CodeOf[1])>> >>,
    << <<"code", Str_("")>> >>,
    << <<"code", Int_(7)>> >>,
    << <<"dependence", Str_("Anthropic")>> >>,
    << <<"dependence", None_>> >>,
    << <<"url_requirements", Bool_(TRUE)>> >>,
    << <<"url_requirements", Bool_(FALSE)>> >>,
    << <<"url_requirements", Int_(1)>> >>,
    << <<"url_requirements", None_>> >>,
    << <<"base_url", None_>> >>,
    << <<"base_url", Str_("")>> >>,
    << <<"base_url", Str_("https://base")>> >>,
    << <<"base_url", Int_(7)>> >>,
    << <<"url_requirements", Bool_(FALSE)>>, <<"base_url", Str_("")>> >>,
    << <<"base_model", Str_("")>> >>,
    << <<"base_model", None_>> >>,
    << <<"charge_url", Str_("")>> >>,
    << <<"docs_url", None_>> >>,
    << <<"features", [isDict |-> FALSE, items |-> <<>>]>> >>,
    << Items(WithDeepThink(NotADict)) >>,
    << Items(WithDeepThink(RawFeat(None_, Str_("reasoner"), None_))) >>,
    << Items(WithDeepThink(RawFeat(Int_(1), Str_("reasoner"), None_))) >>,
    << Items(WithDeepThink(RawFeat(Bool_(TRUE), Str_(""), Str_("https://feat")))) >>,
    << Items(WithDeepThink(RawFeat(Bool_(TRUE), Int_(7), None_))) >>,
    << Items(WithDeepThink(RawFeat(Bool_(TRUE), Str_("reasoner"), Str_("")))) >>,
    << Items(WithDeepThink(RawFeat(Bool_(TRUE), Str_("reasoner"), Int_(7)))) >>,
    << Items(BaseItems \o ExtraOne(Str_("1"))) >>,
    << Items(BaseItems \o ExtraOne(Int_(1))) >>,
    << Items(BaseItems \o ExtraOne(Int_(1)) \o ExtraOff(Str_("1"))) >>,
    << Items(BaseItems \o ExtraOff(Str_("extra"))) >>,
    << Items(Without(BaseItems, "deep_think")) >>,
    << Items(Without(BaseItems, "tool_calls")) >> >>

RECURSIVE Patched(_, _)
Patched(entry, patch) ==
    IF patch = <<>> THEN entry
    ELSE Patched([entry EXCEPT ![Head(patch)[1]] = Head(patch)[2]], Tail(patch))

BaseList(len) == [k \in 1..len |-> Base(k)]

GoodDoc(models) ==
    [exists |-> TRUE, isDict |-> TRUE, version |-> Int_(1),
     modelsIsList |-> TRUE, models |-> models]

\* documents that differ from a loading one outside their model entries
OtherDocs ==
    {[GoodDoc(BaseList(len)) EXCEPT !.version = v] :
            len \in 0..MaxModels, v \in {Bool_(TRUE), Str_("1"), None_}}
    \cup {[GoodDoc(BaseList(1)) EXCEPT !.exists = FALSE],
          [GoodDoc(<<>>) EXCEPT !.isDict = FALSE],
          [GoodDoc(<<>>) EXCEPT !.modelsIsList = FALSE]}

\* the documents load is given: up to MaxModels entries, each a patched Base
IsDoc(d) ==
    \/ d \in OtherDocs
    \/ \E len \in 0..MaxModels : \E choice \in [1..len -> 1..Len(Patches)] :
          d = GoodDoc([k \in 1..len |-> Patched(Base(k), Patches[choice[k]])])

(***************************************************************************)
(* ModelRegistry.load and ModelRegistry.__init__                           *)
(***************************************************************************)
CfgRef == 1      \* the list object RegistryConfig.models refers to
UserRef == 2     \* a list object list_models created

NoCall ==
    [op |-> "", code |-> None_, feature |-> None_, id |-> None_,
     exc |-> "", what |-> "", ret |-> <<>>, ref |-> 0]

\* variant: entries numbered from one
CtxFromOne(k) == "models[" \o IntToStr(k) \o "]"

\* ctx=f"models[{i}]", i counted from zero by enumerate
Ctx(k) == "models[" \o IntToStr(k - 1) \o "]"

Abort(e) ==
    /\ pc' = "failed"
    /\ err' = e
    /\ UNCHANGED <<doc, i, heap, by_id, by_code, last, langVars>>

\* load up to the comprehension: the file, the root, version and models
LoadOpen ==
    /\ pc = "start"
    /\ IF ~doc.exists THEN Abort(Raise("FileNotFoundError", "", "path"))
       ELSE IF ~doc.isDict
           THEN Abort(Raise("TypeError", "YAML root", "must be a dict"))
       ELSE IF ~IsInstanceInt(doc.version)
           THEN Abort(Raise("TypeError", "version", "must be int"))
       ELSE IF ~doc.modelsIsList
           THEN Abort(Raise("TypeError", "models", "must be a list"))
       ELSE /\ pc' = "parse"
            /\ i' = 1
            /\ heap' = (CfgRef :> <<>>)
            /\ UNCHANGED <<doc, by_id, by_code, err, last, langVars>>

\* one round of the comprehension over enumerate(models_raw)
ParseModel ==
    /\ pc = "parse"
    /\ i <= Len(doc.models)
    /\ LET r == ModelFromDict(doc.models[i], Ctx(i))
       IN IF ~r.ok THEN Abort(r.err)
          ELSE /\ heap' = [heap EXCEPT ![CfgRef] = Append(@, r.val)]
               /\ i' = i + 1
               /\ UNCHANGED <<doc, pc, by_id, by_code, err, last, langVars>>

\* RegistryConfig(...) and the first three statements of __init__
Construct ==
    /\ pc = "parse"
    /\ i > Len(doc.models)
    /\ pc' = "index"
    /\ i' = 1
    /\ by_id' = <<>>
    /\ by_code' = <<>>
    /\ UNCHANGED <<doc, heap, err, last, langVars>>

DuplicateId(m, ids) == m.id.n \in DOMAIN ids
\* variant: a repeated code goes unnoticed
DuplicateCodeUnnoticed(m, codes) == FALSE

DuplicateCode(m, codes) == m.code \in DOMAIN codes

\* one round of the loop over cfg.models in __init__
IndexModel ==
    /\ pc = "index"
    /\ i <= Len(heap[CfgRef])
    /\ LET m == heap[CfgRef][i]
       IN IF DuplicateId(m, by_id)
              THEN Abort(Raise("ValueError", "", "Duplicate model id: " \o PyStr(m.id)))
          ELSE IF DuplicateCode(m, by_code)
              THEN Abort(Raise("ValueError", "", "Duplicate model code: " \o m.code))
          ELSE /\ by_id' = (m.id.n :> m) @@ by_id
               /\ by_code' = (m.code :> m) @@ by_code
               /\ i' = i + 1
               /\ UNCHANGED <<doc, pc, heap, err, last, langVars>>

\* {tuple(sorted(m.features.keys())) for m in cfg.models}
KeysSets(models) == {DOMAIN models[k].features : k \in DOMAIN models}

\* variant: no model at all counts as consistent
KeysInconsistentIfSeveral(models) == Cardinality(KeysSets(models)) > 1

\* variant: the global check is left out
KeysInconsistentNever(models) == FALSE

KeysInconsistent(models) == Cardinality(KeysSets(models)) # 1

\* the global check that ends __init__; load then returns the registry
CheckFeatureKeys ==
    /\ pc = "index"
    /\ i > Len(heap[CfgRef])
    /\ IF KeysInconsistent(heap[CfgRef])
           THEN Abort(Raise("ValueError", "", "Inconsistent feature keys across models"))
       ELSE /\ pc' = "ready"
            /\ UNCHANGED <<doc, i, heap, by_id, by_code, err, last, langVars>>

(***************************************************************************)
(* Lookups on a constructed registry                                       *)
(***************************************************************************)
Result(exc, what, ret) == [exc |-> exc, what |-> what, ret |-> ret]

\* variant: a feature's own url is ignored
ResolveEndpointBaseUrl(m, feature) ==
    IF IsNone(feature) THEN Result("", "", <<m.base_url, Str_(m.base_model)>>)
    ELSE IF ~(IsInstanceStr(feature) /\ feature.s \in DOMAIN m.features)
        THEN Result("KeyError", "Unknown feature", <<>>)
    ELSE LET feat == m.features[feature.s]
         IN IF ~feat.supported THEN Result("ValueError", "not supported", <<>>)
            ELSE IF ~Truthy(feat.model)
                THEN Result("ValueError", "supported but model is null", <<>>)
            ELSE Result("", "", <<m.base_url, feat.model>>)

\* variant: the model is looked at before supported
ResolveEndpointModelFirst(m, feature) ==
    IF IsNone(feature) THEN Result("", "", <<m.base_url, Str_(m.base_model)>>)
    ELSE IF ~(IsInstanceStr(feature) /\ feature.s \in DOMAIN m.features)
        THEN Result("KeyError", "Unknown feature", <<>>)
    ELSE LET feat == m.features[feature.s]
         IN IF ~Truthy(feat.model)
                THEN Result("ValueError", "supported but model is null", <<>>)
            ELSE IF ~feat.supported THEN Result("ValueError", "not supported", <<>>)
            ELSE Result("", "",
                        <<IF Truthy(feat.url) THEN feat.url ELSE m.base_url, feat.model>>)

\* ModelConfig.resolve_endpoint; features.get finds only a str key
ResolveEndpoint(m, feature) ==
    IF IsNone(feature) THEN Result("", "", <<m.base_url, Str_(m.base_model)>>)
    ELSE IF ~(IsInstanceStr(feature) /\ feature.s \in DOMAIN m.features)
        THEN Result("KeyError", "Unknown feature", <<>>)
    ELSE LET feat == m.features[feature.s]
         IN IF ~feat.supported THEN Result("ValueError", "not supported", <<>>)
            ELSE IF ~Truthy(feat.model)
                THEN Result("ValueError", "supported but model is null", <<>>)
            ELSE Result("", "",
                        <<IF Truthy(feat.url) THEN feat.url ELSE m.base_url, feat.model>>)

GetByCode(codes, code) ==
    IF IsInstanceStr(code) /\ code.s \in DOMAIN codes
        THEN Result("", "", <<codes[code.s]>>)
    ELSE Result("KeyError", "Unknown model code", <<>>)

GetById(ids, model_id) ==
    IF IsInstanceInt(model_id) /\ model_id.n \in DOMAIN ids
        THEN Result("", "", <<ids[model_id.n]>>)
    ELSE Result("KeyError", "Unknown model id", <<>>)

Resolve(codes, code, feature) ==
    LET r == GetByCode(codes, code)
    IN IF r.exc # "" THEN r ELSE ResolveEndpoint(r.ret[1], feature)

\* variant: the registry's own list is handed out
ListModelsAliased(h) == [ref |-> CfgRef, heap |-> h]

\* list(self._cfg.models): a new list object with the same elements
ListModels(h) == [ref |-> UserRef, heap |-> (UserRef :> h[CfgRef]) @@ h]

\* a list the caller no longer refers to is gone
Release(h) == (CfgRef :> h[CfgRef])

QueryCodes == {Str_(CodeOf[k]) : k \in 1..MaxModels} \cup {Str_("unknown")}
QueryIds == {Int_(k) : k \in 0..MaxModels} \cup {Bool_(TRUE), Str_("1")}
QueryFeatures ==
    {None_, Int_(1)}
    \cup {Str_(k) : k \in required_feature_keys \cup {"1", "unknown"}}

Called(op, code, feature, id, r, ref) ==
    [op |-> op, code |-> code, feature |-> feature, id |-> id,
     exc |-> r.exc, what |-> r.what, ret |-> r.ret, ref |-> ref]

CallGetByCode(code) ==
    /\ pc = "ready"
    /\ last' = Called("get_by_code", code, None_, None_, GetByCode(by_code, code), 0)
    /\ heap' = Release(heap)
    /\ UNCHANGED <<doc, pc, i, by_id, by_code, err, langVars>>

CallGetById(model_id) ==
    /\ pc = "ready"
    /\ last' = Called("get_by_id", None_, None_, model_id, GetById(by_id, model_id), 0)
    /\ heap' = Release(heap)
    /\ UNCHANGED <<doc, pc, i, by_id, by_code, err, langVars>>

CallResolve(code, feature) ==
    /\ pc = "ready"
    /\ last' = Called("resolve", code, feature, None_, Resolve(by_code, code, feature), 0)
    /\ heap' = Release(heap)
    /\ UNCHANGED <<doc, pc, i, by_id, by_code, err, langVars>>

CallListModels ==
    /\ pc = "ready"
    /\ LET r == ListModels(Release(heap))
       IN /\ heap' = r.heap
          /\ last' = Called("list_models", None_, None_, None_, Result("", "", <<>>), r.ref)
    /\ UNCHANGED <<doc, pc, i, by_id, by_code, err, langVars>>

\* what a caller may do to the list it was given: pop(), reverse(), clear()
ListEdits(l) ==
    {<<>>, [k \in 1..Len(l) |-> l[Len(l) + 1 - k]]}
    \cup (IF l = <<>> THEN {} ELSE {SubSeq(l, 1, Len(l) - 1)})

CallerEditsList ==
    /\ pc = "ready"
    /\ last.ref # 0
    /\ \E l \in ListEdits(heap[last.ref]) :
          /\ l # heap[last.ref]
          /\ heap' = [heap EXCEPT ![last.ref] = l]
    /\ UNCHANGED <<doc, pc, i, by_id, by_code, err, last, langVars>>

(***************************************************************************)
(* OptionLanguage: the members in definition order (labels left out, no    *)
(* operation modelled here reads them), and from_code as the scan it is.   *)
(***************************************************************************)
Members == <<
    [name |-> "CHINESE_SIMPLIFIED", id |-> 1, code |-> "zh-CN"],
    [name |-> "CHINESE_TRADITIONAL", id |-> 2, code |-> "zh-TW"],
    [name |-> "ENGLISH", id |-> 3, code |-> "en"],
    [name |-> "JAPANESE", id |-> 4, code |-> "ja"],
    [name |-> "KOREAN", id |-> 5, code |-> "ko"],
    [name |-> "FRENCH", id |-> 6, code |-> "fr"],
    [name |-> "GERMAN", id |-> 7, code |-> "de"],
    [name |-> "SPANISH", id |-> 8, code |-> "es"],
    [name |-> "PORTUGUESE", id |-> 9, code |-> "pt"],
    [name |-> "ITALIAN", id |-> 10, code |-> "it"],
    [name |-> "RUSSIAN", id |-> 11, code |-> "ru"],
    [name |-> "ARABIC", id |-> 12, code |-> "ar"],
    [name |-> "HINDI", id |-> 13, code |-> "hi"],
    [name |-> "DUTCH", id |-> 14, code |-> "nl"],
    [name |-> "SWEDISH", id |-> 15, code |-> "sv"],
    [name |-> "NORWEGIAN", id |-> 16, code |-> "no"],
    [name |-> "DANISH", id |-> 17, code |-> "da"],
    [name |-> "FINNISH", id |-> 18, code |-> "fi"],
    [name |-> "UKRAINIAN", id |-> 19, code |-> "uk"],
    [name |-> "POLISH", id |-> 20, code |-> "pl"],
    [name |-> "CZECH", id |-> 21, code |-> "cs"],
    [name |-> "SLOVAK", id |-> 22, code |-> "sk"],
    [name |-> "HUNGARIAN", id |-> 23, code |-> "hu"],
    [name |-> "ROMANIAN", id |-> 24, code |-> "ro"],
    [name |-> "BULGARIAN", id |-> 25, code |-> "bg"],
    [name |-> "SERBIAN", id |-> 26, code |-> "sr"],
    [name |-> "BENGALI", id |-> 27, code |-> "bn"],
    [name |-> "URDU", id |-> 28, code |-> "ur"],
    [name |-> "TAMIL", id |-> 29, code |-> "ta"],
    [name |-> "TELUGU", id |-> 30, code |-> "te"],
    [name |-> "THAI", id |-> 31, code |-> "th"],
    [name |-> "VIETNAMESE", id |-> 32, code |-> "vi"],
    [name |-> "INDONESIAN", id |-> 33, code |-> "id"],
    [name |-> "MALAY", id |-> 34, code |-> "ms"],
    [name |-> "FILIPINO", id |-> 35, code |-> "fil"],
    [name |-> "HEBREW", id |-> 36, code |-> "he"],
    [name |-> "PERSIAN", id |-> 37, code |-> "fa"],
    [name |-> "TURKISH", id |-> 38, code |-> "tr"],
    [name |-> "GREEK", id |-> 39, code |-> "el"],
    [name |-> "LATIN", id |-> 40, code |-> "la"] >>

CHINESE_SIMPLIFIED == 1     \* position of the member in Members

\* variant: the member's name is compared
CodeMatchesName(item, code) == PyEq(Str_(item.name), code)

CodeMatches(item, code) == PyEq(Str_(item.code), code)

LangInputs ==
    {Str_(Members[k].code) : k \in DOMAIN Members}
    \cup {Str_("zz-invalid"), Str_(""), Str_("ZH-CN"), Str_("zh"), Str_("English"),
          Str_("FRENCH"), None_, Int_(3)}

FromCodeCall(code) ==
    /\ lang_pc \in {"idle", "done"}
    /\ lang_pc' = "scan"
    /\ lang_code' = code
    /\ lang_i' = 1
    /\ lang_ret' = 0
    /\ UNCHANGED regVars

\* one round of "for item in cls"
FromCodeStep ==
    /\ lang_pc = "scan"
    /\ lang_i <= Len(Members)
    /\ IF CodeMatches(Members[lang_i], lang_code)
           THEN /\ lang_ret' = lang_i
                /\ lang_pc' = "done"
                /\ UNCHANGED lang_i
       ELSE /\ lang_i' = lang_i + 1
            /\ UNCHANGED <<lang_pc, lang_ret>>
    /\ UNCHANGED <<regVars, lang_code>>

\* the return after the loop
FromCodeDefault ==
    /\ lang_pc = "scan"
    /\ lang_i > Len(Members)
    /\ lang_ret' = CHINESE_SIMPLIFIED
    /\ lang_pc' = "done"
    /\ UNCHANGED <<regVars, lang_code, lang_i>>

(***************************************************************************)
(* Specifications                                                          *)
(***************************************************************************)
LangIdle ==
    /\ lang_pc = "idle"
    /\ lang_code = None_
    /\ lang_i = 0
    /\ lang_ret = 0

NotLoaded ==
    /\ pc = "start"
    /\ i = 0
    /\ heap = <<>>
    /\ by_id = <<>>
    /\ by_code = <<>>
    /\ err = NoErr
    /\ last = NoCall

Init ==
    /\ IsDoc(doc)
    /\ NotLoaded
    /\ LangIdle

Next ==
    \/ LoadOpen
    \/ ParseModel
    \/ Construct
    \/ IndexModel
    \/ CheckFeatureKeys
    \/ \E code \in QueryCodes : CallGetByCode(code)
    \/ \E model_id \in QueryIds : CallGetById(model_id)
    \/ \E code \in QueryCodes, feature \in QueryFeatures : CallResolve(code, feature)
    \/ CallListModels
    \/ CallerEditsList

Spec == Init /\ [][Next]_vars

InitLang ==
    /\ doc = GoodDoc(BaseList(1))
    /\ NotLoaded
    /\ LangIdle

NextLang ==
    \/ \E code \in LangInputs : FromCodeCall(code)
    \/ FromCodeStep
    \/ FromCodeDefault

SpecLang == InitLang /\ [][NextLang]_vars

(***************************************************************************)
(* What a document says, read off the document itself                      *)
(***************************************************************************)
Entry(k) == doc.models[k]
Positions == DOMAIN doc.models

RawItems(e) == e.features.items
\* the feature keys as the document writes them, and their names as text
RawKeys(e) == {RawItems(e)[j].k : j \in DOMAIN RawItems(e)}
KeyNames(e) == {PyStr(RawItems(e)[j].k) : j \in DOMAIN RawItems(e)}
\* the value the document gives a feature name (the last one written)
Configured(e, name) ==
    LET js == {j \in DOMAIN RawItems(e) : PyStr(RawItems(e)[j].k) = name}
    IN RawItems(e)[CHOOSE j \in js : \A h \in js : h <= j].v

NonEmptyStr(v) == v.t = "str" /\ v.s # ""
NullOrStr(v) == v.t \in {"none", "str"}

WellTypedFeature(f) ==
    f.isDict /\ f.supported.t = "bool" /\ NullOrStr(f.model) /\ NullOrStr(f.url)

WellTypedEntry(e) ==
    /\ e.isDict
    /\ e.id.t = "int"
    /\ NonEmptyStr(e.name) /\ NonEmptyStr(e.code) /\ NonEmptyStr(e.base_model)
    /\ NonEmptyStr(e.charge_url) /\ NonEmptyStr(e.docs_url)
    /\ e.dependence = Str_("OpenAI")
    /\ e.url_requirements.t = "bool"
    /\ NullOrStr(e.base_url)
    /\ e.features.isDict
    /\ \A j \in DOMAIN RawItems(e) : WellTypedFeature(RawItems(e)[j].v)

WellTypedDoc ==
    /\ doc.exists /\ doc.isDict /\ doc.modelsIsList
    /\ doc.version.t = "int"
    /\ \A k \in Positions : WellTypedEntry(Entry(k))

LoadEnded == pc \in {"ready", "failed"}

AllHaveRequiredKeys == \A k \in Positions : required_feature_keys \subseteq KeyNames(Entry(k))
UniqueIds == \A j, k \in Positions : j # k => Entry(j).id # Entry(k).id
UniqueCodes == \A j, k \in Positions : j # k => Entry(j).code # Entry(k).code
BaseUrlNonNull ==
    \A k \in Positions : Entry(k).url_requirements = Bool_(TRUE) => ~IsNone(Entry(k).base_url)
BaseUrlNonEmpty ==
    \A k \in Positions : Entry(k).url_requirements = Bool_(TRUE) => NonEmptyStr(Entry(k).base_url)
SameKeyNames == \A j, k \in Positions : KeyNames(Entry(j)) = KeyNames(Entry(k))

(***************************************************************************)
(* C1                                                                      *)
(***************************************************************************)
\* C1 as stated: a well-typed document loads exactly when every model has
\* the four required feature keys, ids are unique, codes are unique and
\* url_requirements=true comes with a non-null base_url.
C1_LoadIffFourConditions ==
    (WellTypedDoc /\ LoadEnded) =>
        (pc = "ready" <=>
            AllHaveRequiredKeys /\ UniqueIds /\ UniqueCodes /\ BaseUrlNonNull)

\* C1 amended: a well-typed document loads exactly when it has at least one
\* model, every model has the four required feature keys, all models have
\* the same feature names, ids are unique, codes are unique and
\* url_requirements=true comes with a non-empty base_url.
C1_LoadIffValid ==
    (WellTypedDoc /\ LoadEnded) =>
        (pc = "ready" <=>
            /\ doc.models # <<>>
            /\ AllHaveRequiredKeys /\ SameKeyNames
            /\ UniqueIds /\ UniqueCodes /\ BaseUrlNonEmpty)

\* a well-typed two-model document whose only fault is a repeated code has
\* been rejected
C1_Witness ==
    /\ WellTypedDoc /\ pc = "failed" /\ Len(doc.models) = 2
    /\ ~UniqueCodes
    /\ AllHaveRequiredKeys /\ SameKeyNames /\ UniqueIds /\ BaseUrlNonEmpty

(***************************************************************************)
(* C2                                                                      *)
(***************************************************************************)
\* C2 as stated: types are checked exactly, so a loaded document has an int
\* (not a bool) as version and as every id, and a bool as every
\* url_requirements.
C2_ExactTypes ==
    pc = "ready" =>
        /\ doc.version.t = "int"
        /\ \A k \in Positions :
              Entry(k).id.t = "int" /\ Entry(k).url_requirements.t = "bool"

(***************************************************************************)
(* C3                                                                      *)
(***************************************************************************)
ResolveHit(k) ==
    /\ pc = "ready" /\ last.op = "resolve"
    /\ k \in Positions /\ Entry(k).code = last.code

FeatureAsked(k) == Configured(Entry(k), last.feature.s)

SupportedWithModel(k) ==
    /\ last.feature.t = "str" /\ last.feature.s \in KeyNames(Entry(k))
    /\ FeatureAsked(k).supported = Bool_(TRUE)
    /\ NonEmptyStr(FeatureAsked(k).model)

BaseAnswer(k) ==
    IsNone(last.feature) =>
        last.exc = "" /\ last.ret = <<Entry(k).base_url, Entry(k).base_model>>

\* C3 as stated: resolve without a feature gives (base_url, base_model); with
\* a supported feature that has a model it gives (X.url, X.model) when X has
\* a url of its own (a non-null one) and (base_url, X.model) when it has none.
C3_ResolveAsConfigured ==
    \A k \in 1..MaxModels : ResolveHit(k) =>
        /\ BaseAnswer(k)
        /\ SupportedWithModel(k) =>
              /\ last.exc = ""
              /\ last.ret = <<IF ~IsNone(FeatureAsked(k).url) THEN FeatureAsked(k).url
                                ELSE Entry(k).base_url,
                              FeatureAsked(k).model>>

\* C3 amended: as C3, but the feature's own url is returned only when it is a
\* non-empty string; a null or empty url gives base_url.
C3_ResolveNonEmptyUrl ==
    \A k \in 1..MaxModels : ResolveHit(k) =>
        /\ BaseAnswer(k)
        /\ SupportedWithModel(k) =>
              /\ last.exc = ""
              /\ last.ret = <<IF NonEmptyStr(FeatureAsked(k).url) THEN FeatureAsked(k).url
                                ELSE Entry(k).base_url,
                              FeatureAsked(k).model>>

\* resolve has answered for a supported feature with a url of its own
C3_Witness ==
    \E k \in 1..MaxModels :
        /\ ResolveHit(k) /\ SupportedWithModel(k)
        /\ NonEmptyStr(FeatureAsked(k).url)
        /\ last.ret = <<FeatureAsked(k).url, FeatureAsked(k).model>>

(***************************************************************************)
(* C4                                                                      *)
(***************************************************************************)
CodeHits == {k \in Positions : PyEq(Entry(k).code, last.code)}
IdHits == {k \in Positions : PyEq(Entry(k).id, last.id)}

Failed(exc, what) == last.exc = exc /\ last.what = what /\ last.ret = <<>>
ReturnedPair == last.exc = "" /\ Len(last.ret) = 2

\* C4: resolve fails with "unknown model code" on an unknown code, else with
\* "unknown feature" when the feature is not in the model's map, else with
\* "not supported", else with "model is null" when the feature has no model
\* identifier (null or empty), and returns a pair only otherwise; get_by_code
\* and get_by_id fail on a miss and return the model on a hit.
C4_FailuresInOrder ==
    pc = "ready" =>
        /\ last.op = "resolve" =>
              IF CodeHits = {} THEN Failed("KeyError", "Unknown model code")
              ELSE \A k \in CodeHits :
                  IF IsNone(last.feature) THEN ReturnedPair
                  ELSE IF ~(last.feature.t = "str" /\ last.feature.s \in KeyNames(Entry(k)))
                      THEN Failed("KeyError", "Unknown feature")
                  ELSE IF FeatureAsked(k).supported # Bool_(TRUE)
                      THEN Failed("ValueError", "not supported")
                  ELSE IF ~NonEmptyStr(FeatureAsked(k).model)
                      THEN Failed("ValueError", "supported but model is null")
                  ELSE ReturnedPair
        /\ last.op = "get_by_code" =>
              IF CodeHits = {} THEN Failed("KeyError", "Unknown model code")
              ELSE last.exc = "" /\ Str_(last.ret[1].code) = last.code
        /\ last.op = "get_by_id" =>
              IF IdHits = {} THEN Failed("KeyError", "Unknown model id")
              ELSE last.exc = "" /\ PyEq(last.ret[1].id, last.id)

\* resolve was asked for a feature that is unsupported and has no model, and
\* said "not supported"
C4_Witness ==
    \E k \in 1..MaxModels :
        /\ ResolveHit(k)
        /\ last.feature.t = "str" /\ last.feature.s \in KeyNames(Entry(k))
        /\ FeatureAsked(k).supported = Bool_(FALSE)
        /\ IsNone(FeatureAsked(k).model)
        /\ Failed("ValueError", "not supported")

(***************************************************************************)
(* C5                                                                      *)
(***************************************************************************)
Registered == heap[CfgRef]

\* C5 as stated: a document in which two models differ in their feature key
\* sets never yields a registry.
C5_DifferingKeysNeverLoad ==
    pc = "ready" => \A j, k \in Positions : RawKeys(Entry(j)) = RawKeys(Entry(k))

\* C5 amended: in a constructed registry all models have the same feature
\* names, the four required ones among them, and each model has exactly the
\* names its entry writes, as text; a document in which two models differ in
\* their feature names as text never yields a registry.
C5_SameFeatureNames ==
    pc = "ready" =>
        /\ \A j, k \in DOMAIN Registered :
              DOMAIN Registered[j].features = DOMAIN Registered[k].features
        /\ \A k \in DOMAIN Registered :
              /\ required_feature_keys \subseteq DOMAIN Registered[k].features
              /\ DOMAIN Registered[k].features = KeyNames(Entry(k))
        /\ SameKeyNames

\* a registry of two models that both carry a fifth feature, written 1 by
\* one entry and "1" by the other
C5_Witness ==
    /\ pc = "ready" /\ Len(Registered) = 2
    /\ \A k \in 1..2 : Cardinality(DOMAIN Registered[k].features) = 5
    /\ RawKeys(Entry(1)) # RawKeys(Entry(2))

(***************************************************************************)
(* C6                                                                      *)
(***************************************************************************)
PathOf(k) == "models[" \o IntToStr(k - 1) \o "]"

Fault(cond, path) == IF cond THEN {path} ELSE {}

FeatureFaults(f, path) ==
    IF ~f.isDict THEN {path}
    ELSE Fault(f.supported.t # "bool", path \o ".supported")
         \cup Fault(~NullOrStr(f.model), path \o ".model")
         \cup Fault(~NullOrStr(f.url), path \o ".url")

\* the paths of the elements of an entry that break a rule of steps 2 to 4
\* (an id passes as the code's type test has it: int or bool)
EntryFaults(e, path) ==
    IF ~e.isDict THEN {path}
    ELSE Fault(e.id.t \notin {"int", "bool"}, path \o ".id")
         \cup Fault(~NonEmptyStr(e.name), path \o ".name")
         \cup Fault(~NonEmptyStr(e.code), path \o ".code")
         \cup Fault(e.dependence # Str_("OpenAI"), path \o ".dependence")
         \cup Fault(e.url_requirements.t # "bool", path \o ".url_requirements")
         \cup Fault(~NullOrStr(e.base_url), path \o ".base_url")
         \cup Fault(~NonEmptyStr(e.base_model), path \o ".base_model")
         \cup Fault(~NonEmptyStr(e.charge_url), path \o ".charge_url")
         \cup Fault(~NonEmptyStr(e.docs_url), path \o ".docs_url")
         \cup (IF ~e.features.isDict THEN {path \o ".features"}
               ELSE Fault(~(required_feature_keys \subseteq KeyNames(e)),
                          path \o ".features")
                    \cup UNION {FeatureFaults(RawItems(e)[j].v,
                                    path \o ".features." \o PyStr(RawItems(e)[j].k)) :
                                j \in DOMAIN RawItems(e)})
         \cup Fault(e.url_requirements = Bool_(TRUE) /\ ~NonEmptyStr(e.base_url), path)

RootFaults ==
    Fault(~doc.isDict, "YAML root")
    \cup Fault(doc.version.t \notin {"int", "bool"}, "version")
    \cup Fault(~doc.modelsIsList, "models")

RepeatedId == \E j, k \in Positions : j < k /\ PyEq(Entry(j).id, Entry(k).id)
RepeatedCode == \E j, k \in Positions : j < k /\ Entry(j).code = Entry(k).code

LoadRejected == pc = "failed" /\ err.exc # "FileNotFoundError"

MembersWithCode(code) == {k \in DOMAIN Members : Str_(Members[k].code) = code}

\* C7: from_code always returns a member: the one whose code is the
\* argument when there is one, the Chinese-Simplified member otherwise; and
\* the scan never leaves the member list without returning.
C7_FromCodeTotal ==
    /\ lang_pc = "scan" => lang_i \in 1..(Len(Members) + 1) /\ lang_ret = 0
    /\ lang_pc = "done" =>
          /\ lang_ret \in DOMAIN Members
          /\ \A k \in MembersWithCode(lang_code) : lang_ret = k
          /\ MembersWithCode(lang_code) = {} =>
                /\ Members[lang_ret].name = "CHINESE_SIMPLIFIED"
                /\ Members[lang_ret].code = "zh-CN"

\* from_code has answered for a code no member has
C7_Witness ==
    /\ lang_pc = "done" /\ lang_code = Str_("zz-invalid")
    /\ Members[lang_ret].code = "zh-CN"

(***************************************************************************)
(* C8                                                                      *)
(***************************************************************************)
\* C8: once the registry is constructed, no call and no edit of a list that
\* list_models returned changes the registry's model sequence or its id and
\* code indices.
C8_ReadOnly ==
    [][pc = "ready" =>
          /\ pc' = "ready"
          /\ heap'[CfgRef] = heap[CfgRef]
          /\ by_id' = by_id
          /\ by_code' = by_code]_vars

\* the caller has changed the list it got from list_models
C8_Witness ==
    /\ pc = "ready" /\ last.op = "list_models" /\ last.ref # 0
    /\ Registered # <<>>
    /\ heap[last.ref] = <<>>

(***************************************************************************)
(* C9                                                                      *)
(***************************************************************************)
\* C9: a successful resolve returns a non-empty model name, and on a model
\* with url_requirements=true a non-null, non-empty url.
C9_NonEmptyAnswers ==
    \A k \in 1..MaxModels : (ResolveHit(k) /\ last.exc = "") =>
        /\ NonEmptyStr(last.ret[2])
        /\ Entry(k).url_requirements = Bool_(TRUE) => NonEmptyStr(last.ret[1])

\* resolve has answered for a feature with an empty url on a model with
\* url_requirements=true
C9_Witness ==
    \E k \in 1..MaxModels :
        /\ ResolveHit(k) /\ SupportedWithModel(k) /\ last.exc = ""
        /\ Entry(k).url_requirements = Bool_(TRUE)
        /\ FeatureAsked(k).url = Str_("")

(***************************************************************************)
(* C10                                                                     *)
(***************************************************************************)
EmptyModelsDoc ==
    /\ doc.exists /\ doc.isDict /\ doc.modelsIsList
    /\ doc.version.t = "int"
    /\ doc.models = <<>>

\* C10: a document with an integer version and an empty models list fails
\* with the inconsistent-feature-keys error, and every constructed registry
\* has at least one model.
C10_EmptyModelsRejected ==
    /\ (EmptyModelsDoc /\ LoadEnded) =>
          /\ pc = "failed"
          /\ err = Raise("ValueError", "", "Inconsistent feature keys across models")
    /\ pc = "ready" => Len(Registered) >= 1

\* load of an empty models list has failed
C10_Witness ==
    /\ EmptyModelsDoc /\ pc = "failed"
    /\ err.what = "Inconsistent feature keys across models"

====
